---- MODULE Spec2Model ----
(***************************************************************************)
(* Vector modelling and goal-progress engine of official_coach:            *)
(*   backend/engines/scalars.py        influence and final scalars         *)
(*   backend/engines/user_vector.py    user_profile / user_vector_history  *)
(*   backend/engines/target_vector.py  target_profile, progress, archive   *)
(*                                                                         *)
(* Numbers.  Every stored value is written with "%.3f", so a stored value  *)
(* is an integer number of thousandths (300 is 0.300).  Values computed in *)
(* memory before they are stored are carried in millionths, and Fmt3 is    *)
(* the rounding that the "%.3f" / round(v, 3) conversions perform.         *)
(* Dates are day numbers; created_at is the day of the insert.             *)
(***************************************************************************)
EXTENDS Integers, Sequences, FiniteSets, Bags, TLC

\* ------------------------------------------------------------------ bounds
MaxDay == 2
MaxGoals == 2
MaxCalls == 4

Users == {1, 2}
Profiles == {"default", "alt"}
DEFAULT_PROFILE == "default"
None == "None"

VARIABLES
    today,                \* date.today()
    activity,             \* users.currentActivityLevel, per user_id
    user_profile,         \* table user_profile, a bag of rows
    user_vector_history,  \* table user_vector_history, rows in insertion order
    target_profile,       \* table target_profile, target_id = position
    workouts,             \* the workout log of each user (metrics input)
    inflight,             \* request threads inside initialize_user_vector
    calls,                \* number of state-changing calls made so far
    last                  \* what the last call returned to its caller

vars == <<today, activity, user_profile, user_vector_history,
          target_profile, workouts, inflight, calls, last>>

\* ------------------------------------------------------------- arithmetic
Min(a, b) == IF a <= b THEN a ELSE b
Max(a, b) == IF a >= b THEN a ELSE b
Abs(a) == IF a >= 0 THEN a ELSE -a

\* n / d rounded to the nearest integer (d > 0), halves away from zero
RoundDiv(n, d) ==
    IF n >= 0 THEN (2 * n + d) \div (2 * d)
    ELSE -((2 * (-n) + d) \div (2 * d))

\* round(v, 3) and f"{v:.3f}": millionths -> thousandths
Fmt3(u) == RoundDiv(u, 1000)

\* a * b for a and b in millionths, in millionths (the product is split so
\* that every intermediate value stays below 2^31)
MulMicro(a, b) ==
    LET m == Abs(a)
        r == RoundDiv((m \div 1000) * b + RoundDiv((m % 1000) * b, 1000), 1000)
    IN  IF a >= 0 THEN r ELSE -r

\* int(x) of a non-negative quotient n / d
IntDiv(n, d) == n \div d

RECURSIVE SumSeq(_)
SumSeq(s) == IF s = <<>> THEN 0 ELSE Head(s) + SumSeq(Tail(s))

\* -------------------------------------------------------------- dimensions
\* scalars.py: the keys of the dict compute_influence_scalars returns, in
\* insertion order, followed by "final_scalar" (user_vector.py:56)
DIMS == <<"combined_strength", "total_volume", "volume_percentile",
          "weekly_volume", "training_days", "volume_change_pct",
          "intensity_avg", "consistency_pct", "influence_scalar",
          "final_scalar">>
NDims == Len(DIMS)
DimIdx(d) == CHOOSE i \in 1..NDims : DIMS[i] = d

\* ------------------------------------------------- metrics collaborator
\* What get_strength_metrics / get_conditioning_metrics answer for a user.
\* combined_strength is in thousandths of a bodyweight ratio, the volumes in
\* units, the percentages in percent, training_days in days.
LowMetrics ==
    [combined_strength |-> 600, total_volume |-> 2000,
     volume_percentile |-> 50, weekly_volume |-> 4000, training_days |-> 2,
     volume_change_pct |-> 0, intensity_avg |-> 40, consistency_pct |-> 30]
StrongMetrics ==
    [combined_strength |-> 2000, total_volume |-> 10000,
     volume_percentile |-> 50, weekly_volume |-> 12000, training_days |-> 4,
     volume_change_pct |-> 0, intensity_avg |-> 100, consistency_pct |-> 20]

\* no workouts in the window, and a log at every normalisation cap
NoMetrics ==
    [combined_strength |-> 0, total_volume |-> 0,
     volume_percentile |-> 0, weekly_volume |-> 0, training_days |-> 0,
     volume_change_pct |-> 0, intensity_avg |-> 0, consistency_pct |-> 0]
PeakMetrics ==
    [combined_strength |-> 2000, total_volume |-> 10000,
     volume_percentile |-> 100, weekly_volume |-> 20000, training_days |-> 7,
     volume_change_pct |-> 100, intensity_avg |-> 100, consistency_pct |-> 0]

\* a workout on each of the days + 1 dates of the default window
\* (workout_date BETWEEN today - 7 AND today)
DailyMetrics ==
    [combined_strength |-> 2000, total_volume |-> 10000,
     volume_percentile |-> 50, weekly_volume |-> 12000, training_days |-> 8,
     volume_change_pct |-> 0, intensity_avg |-> 100, consistency_pct |-> 20]

\* the raw metrics the collaborator derives from a user's workout log
RawMetrics(log) ==
    CASE log = "strong" -> StrongMetrics
      [] log = "daily" -> DailyMetrics
      [] log = "none" -> NoMetrics
      [] log = "peak" -> PeakMetrics
      [] OTHER -> LowMetrics

DefaultDays == 7
INFLUENCE_WEIGHTS ==
    [combined_strength |-> 300, total_volume |-> 200,
     volume_percentile |-> 100, weekly_volume |-> 150, training_days |-> 100,
     volume_change_pct |-> 50, intensity_avg |-> 50, consistency_pct |-> 50]
METRIC_DIMS == SubSeq(DIMS, 1, 8)

\* ------------------------------------------------------------- scalars.py
\* the eight normalized scalars, in millionths, before rounding
NormalizedScalars(raw, days) ==
    [combined_strength |-> Min(raw.combined_strength * 500, 1000000),
     total_volume      |-> Min(raw.total_volume * 100, 1000000),
     volume_percentile |-> raw.volume_percentile * 10000,
     weekly_volume     |-> Min(raw.weekly_volume * 50, 1000000),
     training_days     |-> RoundDiv(raw.training_days * 1000000, Min(days, 7)),
     volume_change_pct |->
         Max(Min((raw.volume_change_pct + 100) * 5000, 1000000), 0),
     intensity_avg     |-> Min(raw.intensity_avg * 10000, 1000000),
     consistency_pct   |-> Max(1000000 - raw.consistency_pct * 10000, 0)]

\* compute_influence_scalars with the default weights (they sum to 1.0, so
\* the renormalisation branch is not taken): the nine values of the
\* returned dict, in thousandths, in key order
compute_influence_scalars(raw, days) ==
    LET n == NormalizedScalars(raw, days)
        influence ==
            SumSeq([i \in 1..8 |->
                n[METRIC_DIMS[i]] * INFLUENCE_WEIGHTS[METRIC_DIMS[i]]])
    IN  [i \in 1..9 |->
            IF i <= 8 THEN Fmt3(n[METRIC_DIMS[i]])
            ELSE Fmt3(Fmt3(RoundDiv(influence, 1000)) * 1000)]

ActivityLevels == {"Sedentary", "Casual", "Moderate", "Active", "Intense"}

\* an ACTIVITY_SCALAR_MAP that gives the less active levels the higher scalar
classify_activity_level_inverted(level) ==
    CASE level = "Sedentary" -> 1000
      [] level = "Casual"    -> 900
      [] level = "Moderate"  -> 750
      [] level = "Active"    -> 500
      [] level = "Intense"   -> 200
      [] OTHER               -> 500

\* ACTIVITY_SCALAR_MAP through classify_activity_level
classify_activity_level(level) ==
    CASE level = "Sedentary" -> 200
      [] level = "Casual"    -> 500
      [] level = "Moderate"  -> 750
      [] level = "Active"    -> 900
      [] level = "Intense"   -> 1000
      [] OTHER               -> 500

\* calculate_overall_fitness_scalar: raises ValueError (ok = FALSE), raises
\* ZeroDivisionError in the normalisation when both weights are 0
\* (ok = FALSE), or returns the scalar in thousandths
calculate_overall_fitness_scalar(sc, act, sw, aw) ==
    IF ~(0 <= sc /\ sc <= 1000) \/ ~(0 <= act /\ act <= 1000)
       \/ ~(sw >= 0 /\ aw >= 0)
    THEN [ok |-> FALSE, val |-> 0]
    ELSE IF sw + aw = 0
    THEN [ok |-> FALSE, val |-> 0]
    ELSE IF Abs(sw + aw - 1000) > 10
         THEN [ok |-> TRUE, val |-> RoundDiv(sc * sw + act * aw, sw + aw)]
         ELSE [ok |-> TRUE, val |-> RoundDiv(sc * sw + act * aw, 1000)]

\* compute_final_scalar, step 4: final scalar -> persisted activity level
LevelOfScalar(final_scalar) ==
    IF final_scalar >= 950 THEN "Intense"
    ELSE IF final_scalar >= 800 THEN "Active"
    ELSE IF final_scalar >= 600 THEN "Moderate"
    ELSE IF final_scalar >= 300 THEN "Casual"
    ELSE "Sedentary"

\* compute_final_scalar, steps 1-3, given the activity level it read
compute_final_scalar(raw, level, days, sw, aw) ==
    calculate_overall_fitness_scalar(
        compute_influence_scalars(raw, days)[9],
        IF level = None THEN 500 ELSE classify_activity_level(level),
        sw, aw)

\* ---------------------------------------------------- table user_profile
\* SELECT ... WHERE user_id = ? AND name = ?
ProfileRows(tbl, u, p) ==
    {r \in BagToSet(tbl) : r.user_id = u /\ r.name = p}

\* number of rows of the table with the key (user_id, name)
ProfileRowCount(tbl, u, p) ==
    BagCardinality([r \in ProfileRows(tbl, u, p) |-> tbl[r]])

\* a plain INSERT, without the ON CONFLICT clause
InsertUserProfile(tbl, u, p, vec) ==
    tbl (+) SetToBag({[user_id |-> u, name |-> p, vector |-> vec]})

\* INSERT ... ON CONFLICT(user_id, name) DO UPDATE SET dimensions, vector
\* (the table is created UNIQUE(user_id, name)); created_at is not modelled
UpsertUserProfile(tbl, u, p, vec) ==
    LET new == [user_id |-> u, name |-> p, vector |-> vec]
        others == [r \in BagToSet(tbl) \ ProfileRows(tbl, u, p) |-> tbl[r]]
    IN  IF ProfileRows(tbl, u, p) # {}
        THEN others (+) [r \in {new} |-> ProfileRowCount(tbl, u, p)]
        ELSE tbl (+) SetToBag({new})

\* get_user_vector: "if not row: return None"
HasUserVector(tbl, u, p) == ProfileRows(tbl, u, p) # {}

\* get_user_vector: fetchone() of the SELECT, when there is a row
get_user_vector(tbl, u, p) == CHOOSE r \in ProfileRows(tbl, u, p) : TRUE

\* ------------------------------------------ target_vector.py: generation
GoalTypes == {"Strength", "Endurance", "Weight-Loss", "Performance", "Default"}

\* GoalType(goal_type), falling back to GoalType.DEFAULT on ValueError
ToGoalType(g) == IF g \in GoalTypes THEN g ELSE "Default"

\* improvement_map: goal type -> dimension -> factor, in hundredths
improvement_map(g) ==
    CASE g = "Strength" ->
           [combined_strength |-> 30, total_volume |-> 20,
            intensity_avg |-> 25, influence_scalar |-> 20]
      [] g = "Endurance" ->
           [weekly_volume |-> 40, consistency_pct |-> 30, training_days |-> 30]
      [] g = "Weight-Loss" ->
           [weekly_volume |-> 50, training_days |-> 40, intensity_avg |-> 10]
      [] g = "Performance" ->
           [combined_strength |-> 20, weekly_volume |-> 30,
            intensity_avg |-> 30, consistency_pct |-> 40]
      [] OTHER ->
           [combined_strength |-> 15, weekly_volume |-> 15,
            training_days |-> 15]

\* 1 - np.exp(-factor * 2), in millionths, for the factors of improvement_map
ExpGain(f) ==
    CASE f = 10 -> 181269
      [] f = 15 -> 259182
      [] f = 20 -> 329680
      [] f = 25 -> 393469
      [] f = 30 -> 451188
      [] f = 40 -> 550671
      [] f = 50 -> 632121

NoCustom == [d \in {} |-> 0]

\* _apply_goal_adjustments: baseline in thousandths, custom_dimensions a
\* function dimension -> thousandths; the target values, in millionths
_apply_goal_adjustments(baseline, g, custom) ==
    LET imp == improvement_map(g)
        boosted == [i \in 1..NDims |->
            IF DIMS[i] \in DOMAIN imp
            THEN Min(baseline[i] * 1000
                     + MulMicro(1000000 - baseline[i] * 1000,
                                ExpGain(imp[DIMS[i]])),
                     1000000)
            ELSE baseline[i] * 1000]
        overridden == [i \in 1..NDims |->
            IF DIMS[i] \in DOMAIN custom
            THEN Max(0, Min(custom[DIMS[i]] * 1000, 1000000))
            ELSE boosted[i]]
        improved == {i \in 1..NDims :
                        DIMS[i] \in DOMAIN imp /\ DIMS[i] # "final_scalar"}
        gains == [i \in 1..NDims |->
                    IF i \in improved
                    THEN overridden[i] - baseline[i] * 1000 ELSE 0]
        final_idx == DimIdx("final_scalar")
    IN  [i \in 1..NDims |->
            IF i = final_idx /\ improved # {}
            THEN Min(baseline[final_idx] * 1000
                     + RoundDiv(SumSeq(gains), Cardinality(improved)),
                     980000)
            ELSE overridden[i]]

MILESTONE_PERCENTS == <<25, 50, 75>>

\* percent_decimal ** 0.7, in millionths
ProgressFactor(pct) ==
    CASE pct = 25 -> 378929
      [] pct = 50 -> 615572
      [] pct = 75 -> 817604

\* milestone dates rounded to the nearest day instead of cut to whole days
_calculate_milestone_vectors_rounded(baseline_u, target_u, target_date, now) ==
    LET total_days == target_date - now
    IN  IF total_days <= 0 THEN <<>>
        ELSE [k \in 1..3 |->
                [percent |-> MILESTONE_PERCENTS[k],
                 date |-> now + RoundDiv(total_days * MILESTONE_PERCENTS[k], 100),
                 vector |-> [i \in 1..NDims |->
                     Fmt3(baseline_u[i]
                          + MulMicro(target_u[i] - baseline_u[i],
                                     ProgressFactor(MILESTONE_PERCENTS[k])))]]]

\* _calculate_milestone_vectors: baseline and target in millionths; the
\* milestone vectors are rounded to three decimals
_calculate_milestone_vectors(baseline_u, target_u, target_date, now) ==
    LET total_days == target_date - now
    IN  IF total_days <= 0 THEN <<>>
        ELSE [k \in 1..3 |->
                [percent |-> MILESTONE_PERCENTS[k],
                 date |-> now + IntDiv(total_days * MILESTONE_PERCENTS[k], 100),
                 vector |-> [i \in 1..NDims |->
                     Fmt3(baseline_u[i]
                          + MulMicro(target_u[i] - baseline_u[i],
                                     ProgressFactor(MILESTONE_PERCENTS[k])))]]]

\* a stored value read back as a float
ToMicro(vec) == [i \in 1..Len(vec) |-> vec[i] * 1000]

\* f"{v:.3f}" applied to every value of a vector
FmtVector(vec_u) == [i \in 1..Len(vec_u) |-> Fmt3(vec_u[i])]

\* _persist_target_vector: the INSERT; status defaults to 'active'
_persist_target_vector(tbl, u, p, g, target_date, vec_u, milestones, descr, now) ==
    Append(tbl, [user_id |-> u, profile_name |-> p, goal_type |-> g,
                 target_date |-> target_date, vector |-> FmtVector(vec_u),
                 milestones |-> milestones, description |-> descr,
                 created_at |-> now, updated_at |-> now,
                 status |-> "active"])

\* get_target_vector: "if not row: return None"
HasTarget(tbl, tid) == tid \in 1..Len(tbl)

\* --------------------------------------------- target_vector.py: progress
\* _get_goal_dimension_weights, in tenths
_get_goal_dimension_weights(g) ==
    CASE g = "Strength" ->
           [combined_strength |-> 10, total_volume |-> 7, intensity_avg |-> 8,
            weekly_volume |-> 6, training_days |-> 5, consistency_pct |-> 4,
            final_scalar |-> 7]
      [] g = "Endurance" ->
           [combined_strength |-> 4, total_volume |-> 7, weekly_volume |-> 10,
            training_days |-> 9, consistency_pct |-> 8, intensity_avg |-> 5,
            final_scalar |-> 7]
      [] g = "Weight-Loss" ->
           [combined_strength |-> 3, total_volume |-> 7, weekly_volume |-> 10,
            training_days |-> 9, consistency_pct |-> 6, intensity_avg |-> 4,
            final_scalar |-> 7]
      [] g = "Performance" ->
           [combined_strength |-> 8, total_volume |-> 7, intensity_avg |-> 9,
            weekly_volume |-> 8, training_days |-> 7, consistency_pct |-> 10,
            final_scalar |-> 8]
      [] OTHER ->
           [combined_strength |-> 7, total_volume |-> 7, weekly_volume |-> 7,
            training_days |-> 7, consistency_pct |-> 7, intensity_avg |-> 7,
            final_scalar |-> 7]

\* dimension_weights.get(dim, 0.5)
Importance(g, d) ==
    IF d \in DOMAIN _get_goal_dimension_weights(g)
    THEN _get_goal_dimension_weights(g)[d] ELSE 5

\* SELECT vector FROM user_vector_history WHERE user_id = ? AND
\* snapshot_date <= ? ORDER BY snapshot_date ASC LIMIT 1  (row positions)
BaselineRows(hist, u, start_date) ==
    {i \in 1..Len(hist) :
        /\ hist[i].user_id = u /\ hist[i].snapshot_date <= start_date
        /\ \A j \in 1..Len(hist) :
              (hist[j].user_id = u /\ hist[j].snapshot_date <= start_date)
                  => hist[i].snapshot_date <= hist[j].snapshot_date}

\* the baseline vector calculate_goal_progress compares against: the
\* earliest snapshot of the user not after the goal's creation, else the
\* current vector
BaselineVector(hist, u, start_date, current) ==
    IF BaselineRows(hist, u, start_date) # {}
    THEN hist[CHOOSE i \in BaselineRows(hist, u, start_date) :
                 \A j \in BaselineRows(hist, u, start_date) : i <= j].vector
    ELSE current

\* a progress_pct that measures the distance covered from the baseline
\* without regard to its direction
DimensionProgressAbs(current_val, target_val, baseline_val) ==
    IF Abs(target_val - baseline_val) < 1
    THEN IF current_val >= target_val THEN 100000 ELSE 0
    ELSE Min(100000, RoundDiv(Abs(current_val - baseline_val) * 100000,
                              Abs(target_val - baseline_val)))

\* progress_pct of one dimension, in thousandths of a percent.  Values are
\* thousandths, so abs(target - baseline) < 0.001 is equality; for values
\* exactly one thousandth apart the floating-point test can fall on either
\* side, and no vectors used here are that close.
DimensionProgress(current_val, target_val, baseline_val) ==
    IF Abs(target_val - baseline_val) < 1
    THEN IF current_val >= target_val THEN 100000 ELSE 0
    ELSE LET num == (current_val - baseline_val) * 100000
             den == target_val - baseline_val
             q == IF den > 0 THEN RoundDiv(num, den) ELSE RoundDiv(-num, -den)
         IN  Min(100000, Max(0, q))

\* a time_progress_pct that is not clamped
TimeProgressUnclamped(days_passed, total_days) ==
    IF total_days > 0
    THEN RoundDiv(days_passed * 1000, total_days)
    ELSE 1000

\* time_progress_pct, in tenths of a percent
TimeProgress(days_passed, total_days) ==
    IF total_days > 0
    THEN Min(1000, Max(0, RoundDiv(days_passed * 1000, total_days)))
    ELSE 1000

\* get_current_milestone(target_id): None, or the MilestoneVector it builds.
\* The stored milestones are in percent order.  MilestoneVector.percent is
\* declared int: the pro-rated percent, round(percent, 1), is accepted only
\* when it has no fractional part; otherwise the constructor raises and the
\* function's except clause returns None.
NoMilestone == [kind |-> "None"]

MilestoneVector(vec, pct, d, final, prorated, initial) ==
    [kind |-> "milestone", vector |-> vec, percent |-> pct, date |-> d,
     is_final |-> final, is_prorated |-> prorated, is_initial |-> initial]

\* positions of the stored milestones whose date has been reached
ReachedMilestones(target, now) ==
    {k \in 1..Len(target.milestones) :
        \A j \in 1..k : target.milestones[j].date <= now}

get_current_milestone(targets, profiles, now, tid) ==
    IF ~HasTarget(targets, tid) THEN NoMilestone
    ELSE
    LET target == targets[tid]
        reached == ReachedMilestones(target, now)
        total_days == target.target_date - target.created_at
        days_passed == now - target.created_at
        percent10 == RoundDiv(days_passed * 1000, total_days)
        has_user == HasUserVector(profiles, target.user_id, DEFAULT_PROFILE)
        user_vec == get_user_vector(profiles, target.user_id,
                                    DEFAULT_PROFILE).vector
        first == target.milestones[1]
    IN  IF now >= target.target_date
        THEN MilestoneVector(target.vector, 100, target.target_date,
                             TRUE, FALSE, FALSE)
        ELSE IF reached = {} /\ target.milestones # <<>> /\ ~has_user
        THEN NoMilestone
        ELSE IF reached = {} /\ target.milestones # <<>> /\ total_days > 0
        THEN IF percent10 % 10 # 0 THEN NoMilestone
             ELSE MilestoneVector(
                      [i \in 1..NDims |->
                          user_vec[i]
                          + RoundDiv((first.vector[i] - user_vec[i])
                                       * Min(first.percent * 10, percent10),
                                     first.percent * 10)],
                      percent10 \div 10, now, FALSE, TRUE, FALSE)
        ELSE IF reached # {}
        THEN LET m == target.milestones[
                          CHOOSE k \in reached : \A j \in reached : j <= k]
             IN  MilestoneVector(m.vector, m.percent, m.date,
                                 FALSE, FALSE, FALSE)
        ELSE IF ~has_user THEN NoMilestone
        ELSE MilestoneVector(user_vec, 0, now, FALSE, FALSE, TRUE)

\* 100 / (1 + exp(-10 * (days_passed / total_days - 0.5))), in millionths of
\* a percent: EXPECTED_PROGRESS[total_days][days_passed + 1], and the value
\* for days_ratio = 1.0 that is used when total_days <= 0
EXPECTED_PROGRESS ==
    <<
      <<669285, 99330715, 99999969, 100000000, 100000000, 100000000, 100000000, 100000000>>,
      <<669285, 50000000, 99330715, 99995460, 99999969, 100000000, 100000000, 100000000>>,
      <<669285, 15886910, 84113090, 99330715, 99975969, 99999143, 99999969, 99999999>>,
      <<669285, 7585818, 50000000, 92414182, 99330715, 99944722, 99995460, 99999627>>,
      <<669285, 4742587, 26894142, 73105858, 95257413, 99330715, 99908895, 99987661>>,
      <<669285, 3444520, 15886910, 50000000, 84113090, 96555480, 99330715, 99872898>>,
      <<669285, 2734679, 10500059, 32865255, 67134745, 89499941, 97265321, 99330715>>,
      <<669285, 2297737, 7585818, 22270014, 50000000, 77729986, 92414182, 97702263>>,
      <<669285, 2005754, 5853690, 15886910, 36457644, 63542356, 84113090, 94146310>>,
      <<669285, 1798621, 4742587, 11920292, 26894142, 50000000, 73105858, 88079708>>,
      <<669285, 1644893, 3985570, 9340700, 20364993, 38828059, 61171941, 79635007>>,
      <<669285, 1526715, 3444520, 7585818, 15886910, 30294072, 50000000, 69705928>>
    >>
EXPECTED_AT_END == 99330715

expected_progress(days_passed, total_days) ==
    IF total_days > 0 THEN EXPECTED_PROGRESS[total_days][days_passed + 1]
    ELSE EXPECTED_AT_END

\* progress_status and on_track from overall_progress_pct (tenths of a
\* percent) and expected_progress (millionths of a percent)
progress_status(overall10, expected) ==
    IF overall10 * 1000000 >= 12 * expected THEN "ahead"
    ELSE IF overall10 * 1000000 >= 8 * expected THEN "on_track"
    ELSE IF overall10 * 1000000 >= 5 * expected THEN "slightly_behind"
    ELSE "behind"

\* an on_track that holds only within 20% of the expected progress
on_track_within(overall10, expected) ==
    /\ overall10 * 1000000 >= 8 * expected
    /\ overall10 * 1000000 <= 12 * expected

on_track(overall10, expected) == overall10 * 1000000 >= 8 * expected

\* the unrounded progress_pct of every dimension
VectorProgress(current, target_vec, baseline) ==
    [i \in 1..NDims |->
        DimensionProgress(current[i], target_vec[i],
                          baseline[Min(i, Len(baseline))])]

\* overall_progress_pct: the importance-weighted mean of the dimensions'
\* progress, round(.., 1), in tenths of a percent
overall_progress_pct(g, current, target_vec, baseline) ==
    LET w == [i \in 1..NDims |-> Importance(g, DIMS[i])]
        prog == VectorProgress(current, target_vec, baseline)
        overall == SumSeq([i \in 1..NDims |-> prog[i] * w[i]])
        count == SumSeq(w)
    IN  IF count > 0 THEN RoundDiv(overall, count * 100) ELSE 0

\* calculate_goal_progress, "Calculate next milestone": None without a
\* current milestone or without stored milestones; else the first milestone,
\* in order of percent, whose percent is above the current milestone's
next_milestone(target, current_milestone, now) ==
    LET later == {k \in 1..Len(target.milestones) :
                      current_milestone.kind # "None"
                      /\ target.milestones[k].percent
                             > current_milestone.percent}
    IN  IF later = {} THEN [kind |-> "None"]
        ELSE LET m == target.milestones[
                          CHOOSE k \in later : \A j \in later :
                              target.milestones[k].percent
                                  <= target.milestones[j].percent]
             IN  [kind |-> "next", percent |-> m.percent, date |-> m.date,
                  days_until |-> m.date - now]

\* calculate_goal_progress, from the timing metrics on: the report for an
\* existing target and an existing user vector
ProgressReport(targets, profiles, hist, now, u, tid) ==
    LET target == targets[tid]
        current == get_user_vector(profiles, u, DEFAULT_PROFILE).vector
        start_date == target.created_at
        total_days == target.target_date - start_date
        days_passed == now - start_date
        baseline == BaselineVector(hist, u, start_date, current)
        prog == VectorProgress(current, target.vector, baseline)
        overall10 == overall_progress_pct(target.goal_type, current,
                                          target.vector, baseline)
        expected == expected_progress(days_passed, total_days)
        milestone == get_current_milestone(targets, profiles, now, tid)
    IN  [kind |-> "report",
         target_id |-> tid,
         total_days |-> total_days,
         days_passed |-> days_passed,
         days_remaining |-> Max(0, target.target_date - now),
         time_progress_pct |-> TimeProgress(days_passed, total_days),
         vector_progress_pct |-> overall10,
         expected_progress |-> expected,
         status |-> progress_status(overall10, expected),
         on_track |-> on_track(overall10, expected),
         current_milestone_pct |->
             IF milestone.kind = "None" THEN 0 ELSE milestone.percent,
         next_milestone |-> next_milestone(target, milestone, now),
         dimension_progress |->
             [i \in 1..NDims |->
                 [dimension |-> DIMS[i], current |-> current[i],
                  target |-> target.vector[i],
                  baseline |-> baseline[Min(i, Len(baseline))],
                  progress_pct |-> RoundDiv(prog[i], 100)]]]

\* a calculate_goal_progress that answers a missing target or user vector
\* with an all-zero report instead of raising
calculate_goal_progress_zero(targets, profiles, hist, now, u, tid) ==
    IF ~HasTarget(targets, tid)
       \/ ~HasUserVector(profiles, u, DEFAULT_PROFILE)
    THEN [kind |-> "report", target_id |-> tid, total_days |-> 0,
          days_passed |-> 0, days_remaining |-> 0, time_progress_pct |-> 0,
          vector_progress_pct |-> 0]
    ELSE ProgressReport(targets, profiles, hist, now, u, tid)

\* calculate_goal_progress(user_id, target_id): the report, or the ValueError
\* it raises when get_target_vector or get_user_vector returns None
calculate_goal_progress(targets, profiles, hist, now, u, tid) ==
    IF ~HasTarget(targets, tid)
    THEN [kind |-> "ValueError", msg |-> "Target not found"]
    ELSE IF ~HasUserVector(profiles, u, DEFAULT_PROFILE)
    THEN [kind |-> "ValueError", msg |-> "User vector not found"]
    ELSE ProgressReport(targets, profiles, hist, now, u, tid)

\* -------------------------------------- target_vector.py: recommendations
\* classify_overall_fitness_tier, the activity_level get_user_vector attaches
\* to a vector ("Beginner" also when final_scalar is 0 or absent)
classify_overall_fitness_tier(final_scalar) ==
    IF final_scalar >= 950 THEN "Elite"
    ELSE IF final_scalar >= 850 THEN "Advanced"
    ELSE IF final_scalar >= 650 THEN "Intermediate"
    ELSE IF final_scalar >= 400 THEN "Novice"
    ELSE "Beginner"

\* key_metrics: the dimensions a recommendation can focus on, with labels
KEY_METRICS == <<"combined_strength", "weekly_volume", "training_days",
                 "intensity_avg", "consistency_pct">>
KeyLabel(dim) ==
    CASE dim = "combined_strength" -> "strength"
      [] dim = "weekly_volume" -> "volume"
      [] dim = "training_days" -> "frequency"
      [] dim = "intensity_avg" -> "intensity"
      [] dim = "consistency_pct" -> "consistency"

\* users.goal, the goal preference given at registration; nothing in the
\* engine writes it
UserGoal == [u \in Users |-> IF u = 2 THEN "Weight-Loss" ELSE "Strength"]

\* sorted(..., key=value): the key metric at position pos (from 1) of
\* sorted_metrics; the sort is stable, so ties keep the key_metrics order
SortedMetric(vec, pos) ==
    CHOOSE j \in 1..Len(KEY_METRICS) :
        pos = 1 + Cardinality({k \in 1..Len(KEY_METRICS) :
                  \/ vec[DimIdx(KEY_METRICS[k])] < vec[DimIdx(KEY_METRICS[j])]
                  \/ /\ vec[DimIdx(KEY_METRICS[k])] = vec[DimIdx(KEY_METRICS[j])]
                     /\ k < j})

\* two custom targets: dimension -> thousandths
TwoTargets(d1, v1, d2, v2) == [d \in {d1, d2} |-> IF d = d1 THEN v1 ELSE v2]

\* the recommendation generated for the key metric at sorted position pos
RecommendationFor(vec, level, pos) ==
    LET dim == KEY_METRICS[SortedMetric(vec, pos)]
        label == KeyLabel(dim)
        value == vec[DimIdx(dim)]
        other(d) == vec[DimIdx(d)]
        base == [priority |-> 5 - (pos - 1), focus_dimension |-> dim]
        rec(g, descr, duration, targets) ==
            [goal_type |-> g, description |-> descr,
             recommended_duration |-> duration, priority |-> base.priority,
             focus_dimension |-> dim, custom_targets |-> targets]
    IN  CASE label = "strength" /\ level \in {"Beginner", "Novice"} ->
               rec("Strength",
                   "Focus on compound movements to develop base strength", 90,
                   TwoTargets(dim, Min(value + 300, 900), "intensity_avg",
                              Min(other("intensity_avg") + 200, 900)))
          [] label = "strength" /\ level \notin {"Beginner", "Novice"} ->
               rec("Strength",
                   "Progressive overload with periodized strength training",
                   120,
                   TwoTargets(dim, Min(value + 200, 950), "intensity_avg",
                              Min(other("intensity_avg") + 150, 950)))
          [] label = "volume" ->
               rec("Endurance",
                   "Gradually increase training volume for improved adaptation",
                   60,
                   TwoTargets(dim, Min(value + 400, 900), "training_days",
                              Min(other("training_days") + 300, 900)))
          [] label = "frequency" ->
               rec("Default", "Create consistent weekly training schedule", 30,
                   TwoTargets(dim, Min(value + 500, 900), "consistency_pct",
                              Min(other("consistency_pct") + 300, 900)))
          [] label = "intensity" ->
               rec("Performance",
                   "Focus on quality over quantity with higher intensity sessions",
                   45,
                   TwoTargets(dim, Min(value + 300, 900), "combined_strength",
                              Min(other("combined_strength") + 200, 900)))
          [] label = "consistency" ->
               rec("Performance",
                   "Develop consistent training patterns for optimal adaptation",
                   60,
                   TwoTargets(dim, Min(value + 400, 900), "training_days",
                              Min(other("training_days") + 200, 900)))

\* the body composition recommendation of a user whose users.goal is
\* Weight-Loss
WeightLossRecommendation(vec) ==
    [goal_type |-> "Weight-Loss",
     description |->
         "Balanced approach to training for body composition changes",
     recommended_duration |-> 90, priority |-> 3,
     focus_dimension |-> "weekly_volume",
     custom_targets |->
         TwoTargets("weekly_volume",
                    Min(vec[DimIdx("weekly_volume")] + 400, 900),
                    "training_days",
                    Min(vec[DimIdx("training_days")] + 400, 900))]

\* generate_goal_recommendations(user_id, limit=limit), without focus_area or
\* fitness_level: one recommendation for each of the three lowest key
\* metrics (priorities 5, 4, 3), then the Weight-Loss one (priority 3); the
\* final sort by (priority, -len(custom_targets)), reversed, is stable and
\* keeps that order
generate_goal_recommendations(profiles, u, limit) ==
    IF ~HasUserVector(profiles, u, DEFAULT_PROFILE) THEN <<>>
    ELSE LET vec == get_user_vector(profiles, u, DEFAULT_PROFILE).vector
             level == classify_overall_fitness_tier(vec[DimIdx("final_scalar")])
             focus == [pos \in 1..3 |-> RecommendationFor(vec, level, pos)]
             recommendations ==
                 IF UserGoal[u] = "Weight-Loss"
                 THEN Append(focus, WeightLossRecommendation(vec))
                 ELSE focus
         IN  SubSeq(recommendations, 1, Min(limit, Len(recommendations)))

\* GET /api/goals/recommendations: rec["id"] = i + 1 for the frontend
get_goal_recommendations(profiles, u, limit) ==
    LET recs == generate_goal_recommendations(profiles, u, limit)
    IN  [i \in 1..Len(recs) |-> [id |-> i, rec |-> recs[i]]]

\* id(rec): the identity of a dict that generate_goal_recommendations has
\* just built.  It is an address of the running interpreter, any of them,
\* different for objects alive together, and never a small integer.
ObjectIds == 1001..1005

\* create_goal_from_recommendation: the recommendations it regenerates carry
\* no "id" key, so rec.get("id", id(rec)) is id(rec).  The positions of the
\* n regenerated recommendations that the loop can stop at for a given
\* recommendation_id, 0 standing for none: an address can turn out to be the
\* identity of any one of them or of none, another number of none.
FoundRecommendation(n, recommendation_id) ==
    IF recommendation_id \in ObjectIds THEN 0..n ELSE {0}

\* "custom_duration or recommendation.get('recommended_duration', 90)";
\* no custom_duration is 0
GoalDuration(custom_duration, rec) ==
    IF custom_duration # 0 THEN custom_duration ELSE rec.recommended_duration

\* ------------------------------------------- target_vector.py: mutation
\* milestones recalculated on every update
RecalculateAlways(has_date, has_custom) == TRUE

\* update_target_vector: "if new_target_date or custom_dimensions", the
\* condition under which the milestones are recalculated
RecalculateMilestones(has_date, has_custom) == has_date \/ has_custom

\* update_target_vector on an existing target: the table after the UPDATE
update_target_vector(targets, profiles, now, tid, custom, extend, descr, status) ==
    LET target == targets[tid]
        has_date == extend # 0
        new_target_date == target.target_date + extend
        new_vector == [i \in 1..NDims |->
            IF DIMS[i] \in DOMAIN custom
            THEN Max(0, Min(custom[DIMS[i]], 1000))
            ELSE target.vector[i]]
        has_custom == DOMAIN custom # {}
        new_milestones ==
            IF RecalculateMilestones(has_date, has_custom)
               /\ HasUserVector(profiles, target.user_id, DEFAULT_PROFILE)
            THEN _calculate_milestone_vectors(
                     ToMicro(get_user_vector(profiles, target.user_id,
                                             DEFAULT_PROFILE).vector),
                     ToMicro(new_vector),
                     IF has_date THEN new_target_date ELSE target.target_date,
                     now)
            ELSE target.milestones
    IN  IF ~has_custom /\ ~has_date /\ descr = None /\ status = None
        THEN targets
        ELSE [targets EXCEPT ![tid] =
                [target EXCEPT
                    !.target_date = IF has_date THEN new_target_date ELSE @,
                    !.vector = IF has_custom THEN new_vector ELSE @,
                    !.milestones =
                        IF new_milestones # target.milestones
                        THEN new_milestones ELSE @,
                    !.description = IF descr # None THEN descr ELSE @,
                    !.status = IF status # None THEN status ELSE @,
                    !.updated_at = now]]

\* archive_completed_goals: the SELECT of the user's active goals whose
\* target_date is before today
ExpiredGoals(targets, now, u) ==
    {i \in 1..Len(targets) :
        /\ targets[i].user_id = u
        /\ targets[i].status = "active"
        /\ targets[i].target_date < now}

\* archive_completed_goals: what the loop does with one expired goal
ArchiveStatus(targets, profiles, hist, now, u, gid) ==
    LET progress == calculate_goal_progress(targets, profiles, hist, now, u, gid)
    IN  IF progress.kind # "report" THEN "active"
        ELSE IF progress.vector_progress_pct >= 800 THEN "completed"
        ELSE "expired"

\* archive_completed_goals: the table after the loop
ArchiveTable(targets, profiles, hist, now, u) ==
    [i \in 1..Len(targets) |->
        IF i \in ExpiredGoals(targets, now, u)
           /\ ArchiveStatus(targets, profiles, hist, now, u, i) # "active"
        THEN update_target_vector(targets, profiles, now, i, NoCustom, 0, None,
                 ArchiveStatus(targets, profiles, hist, now, u, i))[i]
        ELSE targets[i]]

\* archive_completed_goals: the value it returns
ArchiveCount(targets, profiles, hist, now, u) ==
    Cardinality({i \in ExpiredGoals(targets, now, u) :
        ArchiveStatus(targets, profiles, hist, now, u, i) = "completed"})

\* ================================================================ state
Threads == {1, 2}

\* inputs of the calls
STRENGTH_WEIGHT == 600
ACTIVITY_WEIGHT == 400
GoalTypeInputs == {"Strength", "Endurance"}
TargetDateInputs(now) == {now, now + 1}
CustomInputs == {NoCustom}
DescriptionInputs == {None}

\* arguments of update_target_vector: custom_dimensions, extend_target_date,
\* new_description, status
Override == [d \in {"combined_strength"} |-> 1500]
UpdateInputs ==
    {<<NoCustom, 0, None, None>>,
     <<NoCustom, 0, None, "active">>,
     <<NoCustom, 0, None, "completed">>,
     <<NoCustom, 0, None, "abandoned">>,
     <<NoCustom, 0, "mine", None>>,
     <<NoCustom, 1, None, None>>,
     <<NoCustom, -3, None, None>>,
     <<Override, 0, None, None>>,
     <<Override, 1, "mine", "abandoned">>}

Idle == [pc |-> "idle", user |-> 0, profile |-> None, scalars |-> <<>>,
         level |-> None, final |-> 0]

\* op and kind: the call and how it ended; supplied and dims: the arguments
\* an update was given and the dimensions it named; count: what archive
\* returned, or for a build the number of rows its key had before the call
NoCall == [op |-> "none", user |-> 0, profile |-> None, target |-> 0,
           date |-> 0, supplied |-> {}, dims |-> {}, kind |-> None,
           count |-> 0, ret |-> <<>>]

Init ==
    /\ today = 0
    /\ activity = [u \in Users |-> "Moderate"]
    /\ workouts = [u \in Users |-> IF u = 1 THEN "strong" ELSE "low"]
    /\ user_profile = EmptyBag
    /\ user_vector_history = <<>>
    /\ target_profile = <<>>
    /\ inflight = [t \in Threads |-> Idle]
    /\ calls = 0
    /\ last = NoCall

\* the calendar day changes
Tick ==
    /\ today < MaxDay
    /\ today' = today + 1
    /\ last' = NoCall
    /\ UNCHANGED <<activity, workouts, user_profile, user_vector_history,
                   target_profile, inflight, calls>>

\* the user's workout log changes what the metrics collaborator reports
LogWorkout(u) ==
    /\ workouts' = [workouts EXCEPT ![u] = IF @ = "low" THEN "strong" ELSE "low"]
    /\ calls < MaxCalls
    /\ calls' = calls + 1
    /\ last' = NoCall
    /\ UNCHANGED <<today, activity, user_profile, user_vector_history,
                   target_profile, inflight>>

\* initialize_user_vector(user_id, profile_name), run from start to end
Build(u, p) ==
    LET raw == RawMetrics(workouts[u])
        scalars == compute_influence_scalars(raw, DefaultDays)
        final == compute_final_scalar(raw, activity[u], DefaultDays,
                                      STRENGTH_WEIGHT, ACTIVITY_WEIGHT)
    IN  /\ calls < MaxCalls
        /\ calls' = calls + 1
        /\ IF final.ok
           THEN /\ activity' = [activity EXCEPT ![u] = LevelOfScalar(final.val)]
                /\ user_profile' =
                       UpsertUserProfile(user_profile, u, p,
                                         scalars \o <<final.val>>)
                /\ last' = [NoCall EXCEPT !.op = "build", !.user = u,
                               !.profile = p, !.kind = "ok",
                               !.count = ProfileRowCount(user_profile, u, p)]
           ELSE /\ UNCHANGED <<activity, user_profile>>
                /\ last' = [NoCall EXCEPT !.op = "build", !.user = u,
                                          !.profile = p, !.kind = "ValueError"]
        /\ UNCHANGED <<today, workouts, user_vector_history, target_profile,
                       inflight>>

\* save_vector_snapshot(user_id, profile_name).  Without a stored vector it
\* returns False.  With one, line 293 evaluates date.today(), and
\* user_vector.py imports neither date nor timedelta (lines 1-12): the call
\* raises NameError before it opens the connection, so neither the UPDATE
\* nor the INSERT of lines 325-344 is ever executed.
Snapshot(u, p) ==
    /\ last' = [NoCall EXCEPT !.op = "snapshot", !.user = u, !.profile = p,
                   !.kind = IF HasUserVector(user_profile, u, p)
                            THEN "NameError" ELSE "False"]
    /\ UNCHANGED <<today, activity, workouts, user_profile,
                   user_vector_history, target_profile, inflight, calls>>

\* _generate_goal_description
GeneratedDescription == "generated"

\* a date check that lets today through (< instead of <=)
InitializeRejectsPast(profiles, now, u, p, target_date) ==
    target_date < now \/ ~HasUserVector(profiles, u, p)

\* initialize_target_vector: the two early "return None": the target date is
\* not in the future, or get_user_vector finds no row
InitializeRejects(profiles, now, u, p, target_date) ==
    target_date <= now \/ ~HasUserVector(profiles, u, p)

\* initialize_target_vector(user_id, goal_type, target_date, profile_name,
\* custom_dimensions, description)
Initialize(u, g, target_date, p, custom, descr) ==
    LET call == [NoCall EXCEPT !.op = "initialize", !.user = u,
                    !.profile = p, !.date = target_date]
    IN  /\ Len(target_profile) < MaxGoals
        /\ calls < MaxCalls
        /\ calls' = calls + 1
        /\ IF InitializeRejects(user_profile, today, u, p, target_date)
           THEN /\ last' = [call EXCEPT !.kind = "None"]
                /\ UNCHANGED target_profile
           ELSE LET baseline == get_user_vector(user_profile, u, p).vector
                    target_u == _apply_goal_adjustments(baseline, ToGoalType(g),
                                                        custom)
                    milestones == _calculate_milestone_vectors(
                                      ToMicro(baseline), target_u,
                                      target_date, today)
                IN  /\ target_profile' =
                           _persist_target_vector(target_profile, u, p,
                               ToGoalType(g), target_date, target_u, milestones,
                               IF descr = None THEN GeneratedDescription
                               ELSE descr,
                               today)
                    /\ last' = [call EXCEPT !.kind = "ok",
                                   !.target = Len(target_profile) + 1]
        /\ UNCHANGED <<today, activity, workouts, user_profile,
                       user_vector_history, inflight>>

\* which optional arguments of update_target_vector are truthy
Supplied(custom, extend, descr, status) ==
    (IF DOMAIN custom # {} THEN {"custom_dimensions"} ELSE {})
    \cup (IF extend # 0 THEN {"extend_target_date"} ELSE {})
    \cup (IF descr # None THEN {"new_description"} ELSE {})
    \cup (IF status # None THEN {"status"} ELSE {})

\* update_target_vector(target_id, custom_dimensions, extend_target_date,
\* new_description, status)
Update(tid, custom, extend, descr, status) ==
    LET call == [NoCall EXCEPT !.op = "update", !.target = tid,
                    !.supplied = Supplied(custom, extend, descr, status),
                    !.dims = DOMAIN custom]
    IN  /\ calls < MaxCalls
        /\ calls' = calls + 1
        /\ IF ~HasTarget(target_profile, tid)
           THEN /\ last' = [call EXCEPT !.kind = "None"]
                /\ UNCHANGED target_profile
           ELSE /\ target_profile' =
                       update_target_vector(target_profile, user_profile, today,
                                            tid, custom, extend, descr, status)
                /\ last' = [call EXCEPT !.kind = "ok",
                               !.ret = <<target_profile'[tid]>>]
        /\ UNCHANGED <<today, activity, workouts, user_profile,
                       user_vector_history, inflight>>

\* calculate_goal_progress(user_id, target_id)
Calculate(u, tid) ==
    LET r == calculate_goal_progress(target_profile, user_profile,
                                     user_vector_history, today, u, tid)
    IN  /\ last' = [NoCall EXCEPT !.op = "calculate", !.user = u,
                       !.target = tid, !.kind = r.kind, !.ret = <<r>>]
        /\ UNCHANGED <<today, activity, workouts, user_profile,
                       user_vector_history, target_profile, inflight, calls>>

\* archive_completed_goals(user_id)
ArchiveCompleted(u) ==
    /\ calls < MaxCalls
    /\ calls' = calls + 1
    /\ target_profile' = ArchiveTable(target_profile, user_profile,
                                      user_vector_history, today, u)
    /\ last' = [NoCall EXCEPT !.op = "archive", !.user = u, !.kind = "ok",
                   !.count = ArchiveCount(target_profile, user_profile,
                                          user_vector_history, today, u)]
    /\ UNCHANGED <<today, activity, workouts, user_profile,
                   user_vector_history, inflight>>

\* GET /api/goals/recommendations for user u
GetRecommendations(u, limit) ==
    /\ last' = [NoCall EXCEPT !.op = "recommendations", !.user = u,
                   !.kind = "ok",
                   !.ret = get_goal_recommendations(user_profile, u, limit)]
    /\ UNCHANGED <<today, activity, workouts, user_profile,
                   user_vector_history, target_profile, inflight, calls>>

\* create_goal_from_recommendation(user_id, recommendation_id,
\* custom_duration); in the call record count is the recommendation_id and
\* date the custom_duration
CreateFromRecommendation(u, recommendation_id, custom_duration) ==
    LET recs == generate_goal_recommendations(user_profile, u, 10)
        call == [NoCall EXCEPT !.op = "create_from_recommendation",
                    !.user = u, !.profile = DEFAULT_PROFILE,
                    !.count = recommendation_id, !.date = custom_duration]
    IN  /\ Len(target_profile) < MaxGoals
        /\ calls < MaxCalls
        /\ calls' = calls + 1
        /\ \E k \in FoundRecommendation(Len(recs), recommendation_id) :
                  IF k = 0
                  THEN /\ last' = [call EXCEPT !.kind = "None"]
                       /\ UNCHANGED target_profile
                  ELSE LET target_date ==
                               today + GoalDuration(custom_duration, recs[k])
                           baseline ==
                               get_user_vector(user_profile, u,
                                               DEFAULT_PROFILE).vector
                           target_u ==
                               _apply_goal_adjustments(
                                   baseline, ToGoalType(recs[k].goal_type),
                                   recs[k].custom_targets)
                           milestones ==
                               _calculate_milestone_vectors(
                                   ToMicro(baseline), target_u, target_date,
                                   today)
                       IN  IF InitializeRejects(user_profile, today, u,
                                                DEFAULT_PROFILE, target_date)
                           THEN /\ last' = [call EXCEPT !.kind = "None"]
                                /\ UNCHANGED target_profile
                           ELSE /\ target_profile' =
                                       _persist_target_vector(
                                           target_profile, u, DEFAULT_PROFILE,
                                           ToGoalType(recs[k].goal_type),
                                           target_date, target_u, milestones,
                                           recs[k].description, today)
                                /\ last' = [call EXCEPT !.kind = "ok",
                                       !.target = Len(target_profile) + 1]
        /\ UNCHANGED <<today, activity, workouts, user_profile,
                       user_vector_history, inflight>>

\* goal lifecycle: builds, goal creation, updates, archiving, passing days
Next ==
    \/ Tick
    \/ \E u \in Users, p \in Profiles : Build(u, p)
    \/ \E u \in Users, g \in GoalTypeInputs, d \in TargetDateInputs(today),
          p \in Profiles, c \in CustomInputs, ds \in DescriptionInputs :
          Initialize(u, g, d, p, c, ds)
    \/ \E tid \in 1..MaxGoals, a \in UpdateInputs :
          Update(tid, a[1], a[2], a[3], a[4])
    \/ \E u \in Users : ArchiveCompleted(u)

Spec == Init /\ [][Next]_vars

\* user vectors: workout logs, builds and snapshots
NextVec ==
    \/ Tick
    \/ \E u \in Users : LogWorkout(u)
    \/ \E u \in Users, p \in Profiles : Build(u, p)
    \/ \E u \in Users, p \in Profiles : Snapshot(u, p)

SpecVec == Init /\ [][NextVec]_vars

\* goal creation on its own: builds, initialize calls, passing days
NextGoal ==
    \/ Tick
    \/ \E u \in Users, p \in Profiles : Build(u, p)
    \/ \E u \in Users, g \in GoalTypeInputs, d \in TargetDateInputs(today),
          p \in Profiles, c \in CustomInputs, ds \in DescriptionInputs :
          Initialize(u, g, d, p, c, ds)

SpecGoal == Init /\ [][NextGoal]_vars

\* the specifications of updates and of progress reports stop one call
\* before the lifecycle does
CallsLeft == calls < MaxCalls - 1

\* updates of stored goals
NextUpd ==
    \/ CallsLeft /\ Tick
    \/ \E u \in Users, p \in Profiles : CallsLeft /\ Build(u, p)
    \/ \E u \in Users, g \in GoalTypeInputs, d \in TargetDateInputs(today),
          p \in Profiles, c \in CustomInputs, ds \in DescriptionInputs :
          CallsLeft /\ Initialize(u, g, d, p, c, ds)
    \/ \E tid \in 1..MaxGoals, a \in UpdateInputs :
          CallsLeft /\ Update(tid, a[1], a[2], a[3], a[4])

SpecUpd == Init /\ [][NextUpd]_vars

\* progress reports on stored goals
NextCalc ==
    \/ CallsLeft /\ Tick
    \/ \E u \in Users, p \in Profiles : CallsLeft /\ Build(u, p)
    \/ \E u \in Users, g \in GoalTypeInputs, d \in TargetDateInputs(today),
          p \in Profiles, c \in CustomInputs, ds \in DescriptionInputs :
          CallsLeft /\ Initialize(u, g, d, p, c, ds)
    \/ \E u \in Users, tid \in 1..MaxGoals : CallsLeft /\ Calculate(u, tid)

SpecCalc == Init /\ [][NextCalc]_vars

\* updates that move the target date or override a dimension
RetargetInputs ==
    {a \in UpdateInputs : a[3] = None /\ a[4] = None
                            /\ (a[1] # NoCustom \/ a[2] # 0)}

\* goals created, moved earlier or later or overridden, and reported on
NextReport ==
    \/ CallsLeft /\ Tick
    \/ \E u \in Users, p \in Profiles : CallsLeft /\ Build(u, p)
    \/ \E u \in Users, g \in GoalTypeInputs, d \in TargetDateInputs(today),
          p \in Profiles, c \in CustomInputs, ds \in DescriptionInputs :
          CallsLeft /\ Initialize(u, g, d, p, c, ds)
    \/ \E tid \in 1..MaxGoals, a \in RetargetInputs :
          CallsLeft /\ Update(tid, a[1], a[2], a[3], a[4])
    \/ \E u \in Users, tid \in 1..MaxGoals : Calculate(u, tid)

SpecReport == Init /\ [][NextReport]_vars

\* target dates of a plan: tomorrow, in a week, in 90 days
PlanDateInputs(now) == {now + 1, now + 7, now + 90}

\* goals planned over short and long horizons
NextPlan ==
    \/ CallsLeft /\ Tick
    \/ \E u \in Users, p \in Profiles : CallsLeft /\ Build(u, p)
    \/ \E u \in Users, g \in GoalTypeInputs, d \in PlanDateInputs(today),
          p \in Profiles, c \in CustomInputs, ds \in DescriptionInputs :
          CallsLeft /\ Initialize(u, g, d, p, c, ds)

SpecPlan == Init /\ [][NextPlan]_vars

\* custom_dimensions of a goal: none, one above the scale, and targets the
\* caller sets to zero
CustomTargetInputs ==
    {NoCustom, Override,
     [d \in {"combined_strength"} |-> 0],
     [d \in {"combined_strength", "total_volume", "intensity_avg",
             "influence_scalar", "weekly_volume", "training_days",
             "consistency_pct"} |-> 0]}

\* goals created with custom dimensions from the vectors the builds produce
NextCustom ==
    \/ \E u \in Users : CallsLeft /\ LogWorkout(u)
    \/ \E u \in Users, p \in Profiles : CallsLeft /\ Build(u, p)
    \/ \E u \in Users, g \in GoalTypes, d \in {today + 1},
          p \in Profiles, c \in CustomTargetInputs, ds \in DescriptionInputs :
          CallsLeft /\ Initialize(u, g, d, p, c, ds)

SpecCustom == Init /\ [][NextCustom]_vars

\* recommendations asked for and turned into goals; a caller can send as
\* recommendation_id an id of the list the API returned, or the identity of
\* a recommendation dict it once held
NextRec ==
    \/ \E u \in Users : CallsLeft /\ LogWorkout(u)
    \/ \E u \in Users, p \in Profiles : CallsLeft /\ Build(u, p)
    \/ \E u \in Users, limit \in {3, 10} : GetRecommendations(u, limit)
    \/ \E u \in Users, rid \in 1..4 \cup {CHOOSE a \in ObjectIds : TRUE},
          cd \in {0, 30} :
          CallsLeft /\ CreateFromRecommendation(u, rid, cd)

SpecRec == Init /\ [][NextRec]_vars

\* custom_dimensions that name every dimension but final_scalar with the
\* value the user's vector has now: a goal of holding the present level
CurrentAsCustom(u, p) ==
    IF HasUserVector(user_profile, u, p)
    THEN [d \in {DIMS[i] : i \in 1..NDims} \ {"final_scalar"} |->
             get_user_vector(user_profile, u, p).vector[DimIdx(d)]]
    ELSE NoCustom

\* goals whose target is the user's present vector, reported on as the days
\* pass
NextDue ==
    \/ Tick
    \/ \E u \in Users, p \in Profiles : CallsLeft /\ Build(u, p)
    \/ \E u \in Users, g \in GoalTypeInputs, d \in TargetDateInputs(today),
          p \in Profiles, ds \in DescriptionInputs :
          CallsLeft /\ Initialize(u, g, d, p, CurrentAsCustom(u, p), ds)
    \/ \E u \in Users, tid \in 1..MaxGoals : Calculate(u, tid)

SpecDue == Init /\ [][NextDue]_vars

\* get_current_milestone(target_id)
CurrentMilestone(tid) ==
    LET m == get_current_milestone(target_profile, user_profile, today, tid)
    IN  /\ last' = [NoCall EXCEPT !.op = "current_milestone", !.target = tid,
                       !.kind = m.kind, !.ret = <<m>>]
        /\ UNCHANGED <<today, activity, workouts, user_profile,
                       user_vector_history, target_profile, inflight, calls>>

\* target dates far enough away for the milestones to fall on distinct days
MilestoneDateInputs(now) == {now + 4, now + 8}

\* goals with spread-out milestones, their current milestone and progress
NextMile ==
    \/ CallsLeft /\ Tick
    \/ \E u \in Users, p \in Profiles : CallsLeft /\ Build(u, p)
    \/ \E u \in Users, g \in GoalTypeInputs, d \in MilestoneDateInputs(today),
          p \in Profiles, c \in CustomInputs, ds \in DescriptionInputs :
          CallsLeft /\ Initialize(u, g, d, p, c, ds)
    \/ \E tid \in 1..MaxGoals : CallsLeft /\ CurrentMilestone(tid)
    \/ \E u \in Users, tid \in 1..MaxGoals : CallsLeft /\ Calculate(u, tid)

SpecMile == Init /\ [][NextMile]_vars

\* goals whose target date is moved out on a later day, and their reports
NextExtend ==
    \/ CallsLeft /\ Tick
    \/ \E u \in Users, p \in Profiles : CallsLeft /\ Build(u, p)
    \/ \E u \in Users, p \in Profiles, c \in CustomInputs,
          ds \in DescriptionInputs :
          CallsLeft /\ Initialize(u, "Strength", today + 4, p, c, ds)
    \/ \E tid \in 1..MaxGoals :
          CallsLeft /\ Update(tid, NoCustom, 4, None, None)
    \/ \E u \in Users, tid \in 1..MaxGoals : Calculate(u, tid)

SpecExtend == Init /\ [][NextExtend]_vars

\* goals of every type created without custom dimensions, from the vectors
\* of users with a light, a strong and a daily workout log
InitBoost ==
    /\ today = 0
    /\ activity = [u \in Users |-> "Moderate"]
    /\ workouts \in [Users -> {"low", "strong", "daily"}]
    /\ user_profile = EmptyBag
    /\ user_vector_history = <<>>
    /\ target_profile = <<>>
    /\ inflight = [t \in Threads |-> Idle]
    /\ calls = 0
    /\ last = NoCall

NextBoost ==
    \/ \E u \in Users, p \in Profiles : CallsLeft /\ Build(u, p)
    \/ \E u \in Users, g \in GoalTypes, p \in Profiles,
          ds \in DescriptionInputs :
          CallsLeft /\ Initialize(u, g, today + 1, p, NoCustom, ds)

SpecBoost == InitBoost /\ [][NextBoost]_vars

\* ----------------------------------- update_target_vector, step by step
\* update_target_vector takes no lock and opens no transaction around its
\* reads and its UPDATE: a request thread reads the goal, reads the user
\* vector and computes, then writes.  An update in flight is the record
\* [pc, target, custom, read, result]: the row it read and the row it
\* computed from it.
RaceOverrides == {[d \in {"combined_strength"} |-> 900],
                  [d \in {"weekly_volume"} |-> 800]}

\* get_target_vector(target_id) at the top of update_target_vector
UpdateBegin(t, tid, custom) ==
    /\ inflight[t].pc = "idle"
    /\ HasTarget(target_profile, tid)
    /\ calls < MaxCalls
    /\ calls' = calls + 1
    /\ inflight' = [inflight EXCEPT ![t] =
           [pc |-> "baseline", target |-> tid, custom |-> custom,
            read |-> target_profile[tid], result |-> target_profile[tid]]]
    /\ UNCHANGED <<today, activity, workouts, user_profile,
                   user_vector_history, target_profile, last>>

\* the new vector from the row that was read, get_user_vector and the
\* recalculated milestones
UpdateBaseline(t) ==
    LET tid == inflight[t].target
    IN  /\ inflight[t].pc = "baseline"
        /\ inflight' = [inflight EXCEPT ![t] =
               [inflight[t] EXCEPT !.pc = "write",
                   !.result = update_target_vector(
                       [i \in {tid} |-> inflight[t].read], user_profile,
                       today, tid, inflight[t].custom, 0, None, None)[tid]]]
        /\ UNCHANGED <<today, activity, workouts, user_profile,
                       user_vector_history, target_profile, calls, last>>

\* UPDATE target_profile SET vector = ?, milestones = ?, updated_at = ...
\* WHERE target_id = ?, and the get_target_vector that is returned.  In the
\* call record, dims collects the dimensions overridden by the updates of
\* this goal completed so far.
UpdateWrite(t) ==
    LET tid == inflight[t].target
        read == inflight[t].read
        result == inflight[t].result
    IN  /\ inflight[t].pc = "write"
        /\ target_profile' = [target_profile EXCEPT ![tid] =
               [@ EXCEPT !.vector = result.vector,
                         !.milestones = IF result.milestones # read.milestones
                                        THEN result.milestones ELSE @,
                         !.updated_at = today]]
        /\ inflight' = [inflight EXCEPT ![t] = Idle]
        /\ last' = [NoCall EXCEPT !.op = "update", !.target = tid,
                       !.kind = "ok", !.supplied = {"custom_dimensions"},
                       !.dims = (IF last.op = "update" /\ last.target = tid
                                 THEN last.dims ELSE {})
                                \cup DOMAIN inflight[t].custom,
                       !.ret = <<target_profile'[tid]>>]
        /\ UNCHANGED <<today, activity, workouts, user_profile,
                       user_vector_history, calls>>

\* request threads overriding dimensions of stored goals
NextRace ==
    \/ \E u \in Users, p \in Profiles : CallsLeft /\ Build(u, p)
    \/ \E u \in Users, g \in GoalTypeInputs, d \in MilestoneDateInputs(today),
          p \in Profiles, c \in CustomInputs, ds \in DescriptionInputs :
          CallsLeft /\ Initialize(u, g, d, p, c, ds)
    \/ \E t \in Threads, tid \in 1..MaxGoals, c \in RaceOverrides :
          UpdateBegin(t, tid, c)
    \/ \E t \in Threads : UpdateBaseline(t)
    \/ \E t \in Threads : UpdateWrite(t)

SpecRace == Init /\ [][NextRace]_vars

\* ------------------------------------- save_vector_snapshot, step by step
\* save_vector_snapshot holds no lock either: a request thread reads the
\* stored vector, then evaluates date.today() and would go on to the SELECT
\* COUNT(*) and the INSERT or UPDATE.  A snapshot in flight is the record
\* [pc, user, profile, read, overlap]; overlap tells that the call began
\* while another snapshot of the same (user, profile) was in flight.
\* get_user_vector(user_id, profile_name) and the "return False" without a
\* stored vector
SnapshotBegin(t, u, p) ==
    /\ inflight[t].pc = "idle"
    /\ calls < MaxCalls
    /\ calls' = calls + 1
    /\ IF HasUserVector(user_profile, u, p)
       THEN /\ inflight' = [inflight EXCEPT ![t] =
                   [pc |-> "today", user |-> u, profile |-> p,
                    read |-> get_user_vector(user_profile, u, p).vector,
                    overlap |-> \E t2 \in Threads \ {t} :
                                    /\ inflight[t2].pc = "today"
                                    /\ inflight[t2].user = u
                                    /\ inflight[t2].profile = p]]
            /\ UNCHANGED last
       ELSE /\ last' = [NoCall EXCEPT !.op = "snapshot", !.user = u,
                           !.profile = p, !.kind = "False"]
            /\ UNCHANGED inflight
    /\ UNCHANGED <<today, activity, workouts, user_profile,
                   user_vector_history, target_profile>>

\* today = date.today().isoformat(): NameError, the call ends before it
\* opens the connection.  In the call record, count is 2 for a call that
\* began during another snapshot of the same (user, profile), else 1.
SnapshotToday(t) ==
    /\ inflight[t].pc = "today"
    /\ inflight' = [inflight EXCEPT ![t] = Idle]
    /\ last' = [NoCall EXCEPT !.op = "snapshot", !.user = inflight[t].user,
                   !.profile = inflight[t].profile, !.kind = "NameError",
                   !.date = today,
                   !.count = IF inflight[t].overlap THEN 2 ELSE 1]
    /\ UNCHANGED <<today, activity, workouts, user_profile,
                   user_vector_history, target_profile, calls>>

\* request threads taking snapshots of stored vectors within one day
NextSnap ==
    \/ \E u \in Users : CallsLeft /\ LogWorkout(u)
    \/ \E u \in Users, p \in Profiles : CallsLeft /\ Build(u, p)
    \/ \E t \in Threads, u \in Users, p \in Profiles : SnapshotBegin(t, u, p)
    \/ \E t \in Threads : SnapshotToday(t)

SpecSnap == Init /\ [][NextSnap]_vars

\* ------------------------------------------------------ repeated builds
\* One (user, profile) built again and again while the workout log, and so
\* the raw metrics, stay as they are.  Users start at any activity level
\* (users.currentActivityLevel is set at registration) with any log.
MaxBuilds == 6

InitRebuild ==
    /\ today = 0
    /\ activity \in [Users -> ActivityLevels]
    /\ workouts \in [Users -> {"none", "low", "strong", "peak"}]
    /\ user_profile = EmptyBag
    /\ user_vector_history = <<>>
    /\ target_profile = <<>>
    /\ inflight = [t \in Threads |-> Idle]
    /\ calls = 0
    /\ last = NoCall

\* initialize_user_vector(u, p) once more; ret lists, for every build of
\* this user and profile so far, the level the user had before it, the
\* vector it stored and returned, and the level it persisted
Rebuild(u, p) ==
    LET raw == RawMetrics(workouts[u])
        scalars == compute_influence_scalars(raw, DefaultDays)
        final == compute_final_scalar(raw, activity[u], DefaultDays,
                                      STRENGTH_WEIGHT, ACTIVITY_WEIGHT)
    IN  /\ last.op = "none" \/ (last.user = u /\ last.profile = p)
        /\ Len(last.ret) < MaxBuilds
        /\ final.ok
        /\ activity' = [activity EXCEPT ![u] = LevelOfScalar(final.val)]
        /\ user_profile' = UpsertUserProfile(user_profile, u, p,
                                             scalars \o <<final.val>>)
        /\ last' = [NoCall EXCEPT !.op = "build", !.user = u, !.profile = p,
                       !.kind = "ok",
                       !.count = ProfileRowCount(user_profile, u, p),
                       !.ret = Append(last.ret,
                                      [before |-> activity[u],
                                       vector |-> scalars \o <<final.val>>,
                                       level |-> LevelOfScalar(final.val)])]
        /\ UNCHANGED <<today, workouts, user_vector_history, target_profile,
                       inflight, calls>>

NextRebuild == \E u \in Users, p \in Profiles : Rebuild(u, p)

SpecRebuild == InitRebuild /\ [][NextRebuild]_vars

\* ---------------------------------------------------- POST /api/login
\* The login route applied to chosen users tables.  A users table maps each
\* email to None (not registered) or to the password_hash stored at
\* registration.
Emails == {"ann@example.com", "bob@example.com", "ghost@example.com"}
Passwords == {"Secret123!", "Wrong123!", "Other123!"}

\* werkzeug's generate_password_hash / check_password_hash: a hash checks
\* only against the password it was generated from
generate_password_hash(password) == "pbkdf2:" \o password
check_password_hash(pwhash, password) == pwhash = generate_password_hash(password)

UsersTables == [Emails -> {None} \cup {generate_password_hash(pw) : pw \in Passwords}]

\* db_utils.user_exists: the row of the email, or False
user_exists(users, email) == users[email] # None

\* login_user of src/app/app.py: status, error and whether a token is issued
login_user(users, email, password) ==
    IF ~user_exists(users, email)
    THEN [status |-> 404, error |-> "User not found", access_token |-> FALSE]
    ELSE IF check_password_hash(users[email], password)
    THEN [status |-> 200, error |-> "", access_token |-> TRUE]
    ELSE [status |-> 401, error |-> "Invalid credentials",
          access_token |-> FALSE]

\* login_user of src/backend/app/app.py with config.db.user_exists: for an
\* unknown email dict(None) raises and the exception comes back as data
\* (400 with its text); a matching password reaches data['id'], a key the
\* row does not have (KeyError, answered 500 by the framework)
login_user_backend(users, email, password) ==
    IF ~user_exists(users, email)
    THEN [status |-> 400, error |-> "'NoneType' object is not iterable",
          access_token |-> FALSE]
    ELSE IF check_password_hash(users[email], password)
    THEN [status |-> 500, error |-> "", access_token |-> FALSE]
    ELSE [status |-> 401, error |-> "Invalid credentials",
          access_token |-> FALSE]

InitLogin ==
    /\ today = 0
    /\ activity = [u \in Users |-> "Moderate"]
    /\ workouts = [u \in Users |-> IF u = 1 THEN "strong" ELSE "low"]
    /\ user_profile = EmptyBag
    /\ user_vector_history = <<>>
    /\ target_profile = <<>>
    /\ inflight = [t \in Threads |-> Idle]
    /\ calls = 0
    /\ \E users \in UsersTables :
          last = [NoCall EXCEPT !.op = "users", !.ret = <<users>>]

\* POST /api/login {email, password} against either copy of the API; the
\* call record keeps the users table, the request and the response
Login(deployment, email, password) ==
    /\ last' = [NoCall EXCEPT !.op = "login", !.kind = deployment,
                   !.ret = <<last.ret[1], email, password,
                             IF deployment = "app"
                             THEN login_user(last.ret[1], email, password)
                             ELSE login_user_backend(last.ret[1], email,
                                                     password)>>]
    /\ UNCHANGED <<today, activity, workouts, user_profile,
                   user_vector_history, target_profile, inflight, calls>>

NextLogin ==
    \E deployment \in {"app", "backend"}, email \in Emails, password \in Passwords :
        Login(deployment, email, password)

SpecLogin == InitLogin /\ [][NextLogin]_vars

\* ------------------------------------ influence scalars as a function
\* compute_influence_scalars applied to chosen raw metrics and lookback
\* windows: non-negative metrics below, at and above the normalisation caps,
\* and a number of training days that fits in the window.
WindowInputs == {1, 7, 10}
RawMetricInputs(days) ==
    [combined_strength : {600, 2500},
     total_volume      : {2000, 12000},
     volume_percentile : {0, 50, 100},
     weekly_volume     : {4000, 25000},
     training_days     : 0..days,
     volume_change_pct : {0, 150},
     intensity_avg     : {40, 150},
     consistency_pct   : {30, 120}]

InitScalars ==
    /\ today = 0
    /\ activity = [u \in Users |-> "Moderate"]
    /\ workouts = [u \in Users |-> IF u = 1 THEN "strong" ELSE "low"]
    /\ user_profile = EmptyBag
    /\ user_vector_history = <<>>
    /\ target_profile = <<>>
    /\ inflight = [t \in Threads |-> Idle]
    /\ calls = 0
    /\ \E days \in WindowInputs : \E raw \in RawMetricInputs(days) :
          last = [NoCall EXCEPT !.op = "metrics", !.ret = <<raw, days>>]

\* compute_influence_scalars on the metrics at hand
ComputeScalars ==
    /\ last.op = "metrics"
    /\ last' = [last EXCEPT !.op = "scalars",
                   !.ret = <<last.ret[1], last.ret[2],
                             compute_influence_scalars(last.ret[1],
                                                       last.ret[2])>>]
    /\ UNCHANGED <<today, activity, workouts, user_profile,
                   user_vector_history, target_profile, inflight, calls>>

NextScalars == ComputeScalars

SpecScalars == InitScalars /\ [][NextScalars]_vars

\* --------------------------------------- final scalar as a function
\* calculate_overall_fitness_scalar applied to chosen scalars and weights,
\* in thousandths: weights that sum to 1.0, within the tolerance of 0.01 of
\* it, far from it, and to 0
InitFitness ==
    /\ today = 0
    /\ activity = [u \in Users |-> "Moderate"]
    /\ workouts = [u \in Users |-> IF u = 1 THEN "strong" ELSE "low"]
    /\ user_profile = EmptyBag
    /\ user_vector_history = <<>>
    /\ target_profile = <<>>
    /\ inflight = [t \in Threads |-> Idle]
    /\ calls = 0
    /\ \E sc \in {0, 200, 500, 1000}, act \in {0, 200, 500, 1000},
          sw \in {0, 400, 405, 600, 2000}, aw \in {0, 400, 405, 600, 2000} :
          last = [NoCall EXCEPT !.op = "weights", !.ret = <<sc, act, sw, aw>>]

\* calculate_overall_fitness_scalar on the arguments at hand
OverallFitness ==
    /\ last.op = "weights"
    /\ last' = [last EXCEPT !.op = "fitness",
                   !.ret = Append(last.ret,
                               calculate_overall_fitness_scalar(
                                   last.ret[1], last.ret[2],
                                   last.ret[3], last.ret[4]))]
    /\ UNCHANGED <<today, activity, workouts, user_profile,
                   user_vector_history, target_profile, inflight, calls>>

NextFitness == OverallFitness

SpecFitness == InitFitness /\ [][NextFitness]_vars

\* ------------------------------------------- progress as a function
\* The progress arithmetic of calculate_goal_progress applied to chosen
\* vectors: the goal type, and a baseline, a target and a current vector
\* that are 0.5 in all but two dimensions.
ProgressValues == {0, 300, 600, 1000}
VariedDims == {DimIdx("combined_strength"), DimIdx("weekly_volume")}
ProgressVectors ==
    {[i \in 1..NDims |-> IF i = DimIdx("combined_strength") THEN a
                         ELSE IF i = DimIdx("weekly_volume") THEN b
                         ELSE 500] :
        a \in ProgressValues, b \in ProgressValues}

InitProgress ==
    /\ today = 0
    /\ activity = [u \in Users |-> "Moderate"]
    /\ workouts = [u \in Users |-> IF u = 1 THEN "strong" ELSE "low"]
    /\ user_profile = EmptyBag
    /\ user_vector_history = <<>>
    /\ target_profile = <<>>
    /\ inflight = [t \in Threads |-> Idle]
    /\ calls = 0
    /\ \E g \in GoalTypeInputs, baseline \in ProgressVectors,
          target_vec \in ProgressVectors, current \in ProgressVectors :
          last = [NoCall EXCEPT !.op = "inputs",
                     !.ret = <<g, baseline, target_vec, current>>]

\* overall_progress_pct of the vectors held in a call record
OverallOf(call) ==
    overall_progress_pct(call.ret[1], call.ret[4], call.ret[3], call.ret[2])

\* one dimension of the current vector moves toward its target value
\* (to a value between where it is and the target), and progress is
\* computed again; count keeps the progress computed before the move
MoveToward(i, v) ==
    LET current == last.ret[4]
        target_vec == last.ret[3]
    IN  /\ last.op \in {"inputs", "move"}
        /\ v # current[i]
        /\ Min(current[i], target_vec[i]) <= v
        /\ v <= Max(current[i], target_vec[i])
        /\ last' = [last EXCEPT !.op = "move", !.count = OverallOf(last),
                       !.ret = <<last.ret[1], last.ret[2], target_vec,
                                 [current EXCEPT ![i] = v]>>]
        /\ UNCHANGED <<today, activity, workouts, user_profile,
                       user_vector_history, target_profile, inflight, calls>>

NextProgress == \E i \in VariedDims, v \in ProgressValues : MoveToward(i, v)

SpecProgress == InitProgress /\ [][NextProgress]_vars

\* ------------------------------------ initialize_user_vector, step by step
\* A request thread runs initialize_user_vector as four separate database
\* accesses, each on a connection of its own; nothing in the code holds a
\* lock from one access to the next.

\* compute_influence_scalars (user_vector.py:45)
BuildBegin(t, u, p) ==
    /\ inflight[t].pc = "idle"
    /\ calls < MaxCalls
    /\ calls' = calls + 1
    /\ inflight' = [inflight EXCEPT ![t] =
           [Idle EXCEPT !.pc = "final", !.user = u, !.profile = p,
               !.scalars = compute_influence_scalars(RawMetrics(workouts[u]),
                                                     DefaultDays)]]
    /\ UNCHANGED <<today, activity, workouts, user_profile,
                   user_vector_history, target_profile, last>>

\* compute_final_scalar, steps 1-3: SELECT currentActivityLevel and combine
BuildReadLevel(t) ==
    LET u == inflight[t].user
        final == compute_final_scalar(RawMetrics(workouts[u]), activity[u],
                     DefaultDays, STRENGTH_WEIGHT, ACTIVITY_WEIGHT)
    IN  /\ inflight[t].pc = "final"
        /\ IF final.ok
           THEN /\ inflight' = [inflight EXCEPT ![t].pc = "write",
                                   ![t].level = LevelOfScalar(final.val),
                                   ![t].final = final.val]
                /\ UNCHANGED last
           ELSE /\ inflight' = [inflight EXCEPT ![t] = Idle]
                /\ last' = [NoCall EXCEPT !.op = "build", !.user = u,
                               !.profile = inflight[t].profile,
                               !.kind = "ValueError"]
        /\ UNCHANGED <<today, activity, workouts, user_profile,
                       user_vector_history, target_profile, calls>>

\* compute_final_scalar, step 4: UPDATE users SET currentActivityLevel
BuildWriteLevel(t) ==
    /\ inflight[t].pc = "write"
    /\ activity' = [activity EXCEPT ![inflight[t].user] = inflight[t].level]
    /\ inflight' = [inflight EXCEPT ![t].pc = "persist"]
    /\ UNCHANGED <<today, workouts, user_profile, user_vector_history,
                   target_profile, calls, last>>

\* the upsert of user_vector.py:83-99 and the return
BuildPersist(t) ==
    LET u == inflight[t].user
        p == inflight[t].profile
    IN  /\ inflight[t].pc = "persist"
        /\ user_profile' = UpsertUserProfile(user_profile, u, p,
               inflight[t].scalars \o <<inflight[t].final>>)
        /\ inflight' = [inflight EXCEPT ![t] = Idle]
        /\ last' = [NoCall EXCEPT !.op = "build", !.user = u, !.profile = p,
                       !.kind = "ok",
                       !.count = ProfileRowCount(user_profile, u, p)]
        /\ UNCHANGED <<today, activity, workouts, target_profile,
                       user_vector_history, calls>>

\* concurrent request threads rebuilding user vectors
NextConc ==
    \/ \E u \in Users : LogWorkout(u)
    \/ \E t \in Threads, u \in Users, p \in Profiles : BuildBegin(t, u, p)
    \/ \E t \in Threads : BuildReadLevel(t)
    \/ \E t \in Threads : BuildWriteLevel(t)
    \/ \E t \in Threads : BuildPersist(t)

SpecConc == Init /\ [][NextConc]_vars

\* =============================================================== claims
TerminalStatuses == {"completed", "expired", "abandoned"}

\* C1: a goal's status only ever moves from active to completed, expired or
\* abandoned; once it is terminal no later update or archive changes it.
C1_StatusOnlyLeavesActive ==
    [][\A i \in 1..Len(target_profile) :
          target_profile'[i].status # target_profile[i].status
              => /\ target_profile[i].status = "active"
                 /\ target_profile'[i].status \in TerminalStatuses]_vars

\* C2: archive_completed_goals(user) re-labels every active goal of the user
\* whose target date is before today: completed when its vector progress is
\* at least 80%, expired otherwise; none of them is left active.
C2_ArchiveRelabelsEveryPastDueGoal ==
    [][last'.op = "archive" =>
          \A i \in ExpiredGoals(target_profile, today, last'.user) :
              LET r == calculate_goal_progress(target_profile, user_profile,
                           user_vector_history, today, last'.user, i)
              IN  /\ target_profile'[i].status # "active"
                  /\ r.kind = "report" =>
                        target_profile'[i].status =
                            IF r.vector_progress_pct >= 800
                            THEN "completed" ELSE "expired"]_vars

\* C3: archive_completed_goals returns the number of goals it archived, the
\* ones it marked completed and the ones it marked expired.
C3_ArchiveReturnsArchivedCount ==
    [][last'.op = "archive" =>
          last'.count = Cardinality({i \in 1..Len(target_profile) :
              target_profile'[i].status # target_profile[i].status})]_vars

\* C4: there is at most one user_profile row per (user, profile); a build for
\* a pair that already has a row overwrites that row with the newly computed
\* vector and adds none, and it leaves the rows of the other pairs alone.
C4_OneRowPerUserProfile ==
    [][/\ \A u \in Users, p \in Profiles :
              ProfileRowCount(user_profile', u, p) <= 1
       /\ (last'.op = "build" /\ last'.kind = "ok") =>
              /\ ProfileRowCount(user_profile', last'.user, last'.profile) = 1
              /\ SubSeq(get_user_vector(user_profile', last'.user,
                                        last'.profile).vector, 1, 9)
                    = compute_influence_scalars(
                          RawMetrics(workouts[last'.user]), DefaultDays)
              /\ last'.count = 1 =>
                    BagCardinality(user_profile') = BagCardinality(user_profile)
              /\ \A u \in Users, p \in Profiles :
                    <<u, p>> # <<last'.user, last'.profile>> =>
                        ProfileRows(user_profile', u, p)
                            = ProfileRows(user_profile, u, p)]_vars

\* C4 witness: a successful build for a pair that already had its row
C4_Witness ==
    /\ last.op = "build" /\ last.kind = "ok" /\ last.count = 1
    /\ ProfileRowCount(user_profile, last.user, last.profile) = 1

\* history rows of one (user, profile, calendar day)
HistoryRows(hist, u, p, d) ==
    {i \in 1..Len(hist) : /\ hist[i].user_id = u
                          /\ hist[i].profile_name = p
                          /\ hist[i].snapshot_date = d}

\* C5: there is at most one history row per (user, profile, day); a snapshot
\* of a stored vector leaves exactly one row for today holding that vector
\* (written or overwritten) and leaves every other row unchanged.
C5_OneSnapshotPerDay ==
    [][/\ \A u \in Users, p \in Profiles, d \in 0..MaxDay :
              Cardinality(HistoryRows(user_vector_history', u, p, d)) <= 1
       /\ (last'.op = "snapshot"
           /\ HasUserVector(user_profile, last'.user, last'.profile)) =>
              /\ \E i \in 1..Len(user_vector_history') :
                    /\ HistoryRows(user_vector_history', last'.user,
                                   last'.profile, today) = {i}
                    /\ user_vector_history'[i].vector =
                           get_user_vector(user_profile, last'.user,
                                           last'.profile).vector
              /\ \A i \in 1..Len(user_vector_history) :
                    i \notin HistoryRows(user_vector_history, last'.user,
                                         last'.profile, today)
                        => user_vector_history'[i] = user_vector_history[i]]_vars

\* C6: at most one vector recompute is in flight for a (user, profile) pair:
\* two builds for the same pair never overlap.
C6_OneRecomputeInFlight ==
    \A t1, t2 \in Threads :
        (t1 # t2 /\ inflight[t1].pc # "idle" /\ inflight[t2].pc # "idle")
            => <<inflight[t1].user, inflight[t1].profile>>
                   # <<inflight[t2].user, inflight[t2].profile>>

\* C7: every stored goal's target date is strictly after its creation date.
C7_TargetDateAfterCreation ==
    \A i \in 1..Len(target_profile) :
        target_profile[i].target_date > target_profile[i].created_at

C10_UpdateFrame ==
    [][(last'.op = "update" /\ last'.kind = "ok") =>
          LET tid == last'.target
              sup == last'.supplied
              old == target_profile[tid]
              new == target_profile'[tid]
          IN  /\ Len(target_profile') = Len(target_profile)
              /\ \A i \in 1..Len(target_profile) :
                    i # tid => target_profile'[i] = target_profile[i]
              /\ new.user_id = old.user_id
              /\ new.profile_name = old.profile_name
              /\ new.goal_type = old.goal_type
              /\ new.created_at = old.created_at
              /\ "extend_target_date" \notin sup =>
                    new.target_date = old.target_date
              /\ \A i \in 1..NDims :
                    DIMS[i] \notin last'.dims => new.vector[i] = old.vector[i]
              /\ "new_description" \notin sup =>
                    new.description = old.description
              /\ "status" \notin sup => new.status = old.status
              /\ (sup \cap {"custom_dimensions", "extend_target_date"} = {}) =>
                    new.milestones = old.milestones
              /\ sup = {} => (new = old /\ last'.ret = <<old>>)]_vars

\* C10 witness: a status-only update of a stored goal on a later day than
\* the goal's creation
C10_Witness ==
    /\ last.op = "update" /\ last.kind = "ok" /\ last.supplied = {"status"}
    /\ target_profile[last.target].created_at < today
    /\ target_profile[last.target].milestones # <<>>

\* C11: the baseline of an existing goal is fixed at goal creation: whatever
\* happens to the user's vector afterwards, the baseline of calculate's
\* per-dimension progress and the baseline of current_milestone's pro-rated
\* milestone do not change for a goal that is already stored.
C11_BaselineFixedAtCreation ==
    [][\A tid \in 1..Len(target_profile) :
          LET u == target_profile[tid].user_id
              r0 == calculate_goal_progress(target_profile, user_profile,
                        user_vector_history, today, u, tid)
              r1 == calculate_goal_progress(target_profile', user_profile',
                        user_vector_history', today', u, tid)
              m0 == get_current_milestone(target_profile, user_profile,
                                          today, tid)
              m1 == get_current_milestone(target_profile', user_profile',
                                          today', tid)
          IN  target_profile'[tid] = target_profile[tid] =>
                /\ (r0.kind = "report" /\ r1.kind = "report") =>
                      \A i \in 1..NDims :
                          r1.dimension_progress[i].baseline
                              = r0.dimension_progress[i].baseline
                /\ (/\ today' = today
                    /\ m0.kind = "milestone" /\ m0.is_prorated
                    /\ m1.kind = "milestone" /\ m1.is_prorated) =>
                      m1.vector = m0.vector]_vars

\* C17: current_milestone returns the target itself (100%, is_final) when
\* today is on or after the target date; otherwise, once a milestone date
\* has passed, the stored milestone with the latest date not after today;
\* and before the first milestone date a milestone flagged is_prorated
\* (stated here for owners who have a vector of the default profile).
C17_CurrentMilestoneCases ==
    [][(last'.op = "current_milestone"
        /\ HasTarget(target_profile, last'.target)) =>
          LET target == target_profile[last'.target]
              ms == target.milestones
              m == last'.ret[1]
              past == {k \in 1..Len(ms) : ms[k].date <= today}
          IN  /\ today >= target.target_date =>
                    /\ m.kind = "milestone" /\ m.is_final
                    /\ m.percent = 100 /\ m.vector = target.vector
              /\ (today < target.target_date /\ past # {}) =>
                    /\ m.kind = "milestone"
                    /\ ~m.is_final /\ ~m.is_prorated
                    /\ \E k \in past :
                          /\ \A j \in past : ms[j].date <= ms[k].date
                          /\ m.date = ms[k].date
                          /\ m.percent = ms[k].percent
                          /\ m.vector = ms[k].vector
              /\ (/\ today < target.target_date /\ past = {} /\ ms # <<>>
                  /\ HasUserVector(user_profile, target.user_id,
                                   DEFAULT_PROFILE)) =>
                    (m.kind = "milestone" /\ m.is_prorated)]_vars

\* C12: with baseline and target held fixed, overall_progress_pct never
\* decreases when a dimension of the current vector moves toward its target.
C12_ProgressMonotone ==
    [][last'.op = "move" => OverallOf(last') >= OverallOf(last)]_vars

\* C12 witness: a move toward the target that raised the overall progress
C12_Witness ==
    /\ last.op = "move"
    /\ OverallOf(last) > last.count

C14_ReportPercentagesInRange ==
    /\ (last.op = "calculate" /\ last.kind = "report") =>
          LET r == last.ret[1]
          IN  /\ r.time_progress_pct \in 0..1000
              /\ r.vector_progress_pct \in 0..1000
              /\ \A i \in DOMAIN r.dimension_progress :
                    LET dp == r.dimension_progress[i]
                    IN  /\ dp.progress_pct \in 0..1000
                        /\ dp.target = dp.baseline =>
                              dp.progress_pct =
                                  IF dp.current >= dp.target THEN 1000 ELSE 0
              /\ r.total_days <= 0 => r.time_progress_pct = 1000
    /\ \A b \in ProgressValues, t \in ProgressValues, c \in ProgressValues :
          /\ DimensionProgress(c, t, b) \in 0..100000
          /\ t = b => DimensionProgress(c, t, b) =
                          IF c >= t THEN 100000 ELSE 0

\* C14 witness: a report on a goal whose target date was moved to before its
\* creation date (total_days negative), with a dimension the goal leaves at
\* its baseline
C14_Witness ==
    /\ last.op = "calculate" /\ last.kind = "report"
    /\ last.ret[1].total_days < 0
    /\ last.ret[1].time_progress_pct = 1000
    /\ \E i \in DOMAIN last.ret[1].dimension_progress :
          /\ last.ret[1].dimension_progress[i].target
                = last.ret[1].dimension_progress[i].baseline
          /\ last.ret[1].dimension_progress[i].progress_pct = 1000

\* C15: for a goal whose target date has passed and whose user vector (the
\* owner's vector for the goal's profile) equals the target in every
\* dimension, calculate reports time_progress_pct = 100,
\* vector_progress_pct = 100 and a status of ahead or on_track.
C15_PastDueAtTargetIsComplete ==
    (/\ last.op = "calculate" /\ last.kind = "report"
     /\ last.user = target_profile[last.target].user_id
     /\ today > target_profile[last.target].target_date
     /\ HasUserVector(user_profile, last.user,
                      target_profile[last.target].profile_name)
     /\ get_user_vector(user_profile, last.user,
                        target_profile[last.target].profile_name).vector
           = target_profile[last.target].vector)
        => /\ last.ret[1].time_progress_pct = 1000
           /\ last.ret[1].vector_progress_pct = 1000
           /\ last.ret[1].status \in {"ahead", "on_track"}

\* C16: a successful initialize for a target date D >= 1 days ahead stores a
\* goal with status active and exactly three milestones, at 25%, 50% and
\* 75%, dated floor(0.25 D), floor(0.5 D) and floor(0.75 D) days from the
\* day of creation (22, 45 and 67 days for D = 90), each before the target
\* date.
C16_ThreeMilestonesOnCreate ==
    \A tid \in 1..Len(target_profile) :
        LET goal == target_profile[tid]
            D == goal.target_date - goal.created_at
            offsets == [k \in 1..Len(goal.milestones) |->
                           goal.milestones[k].date - goal.created_at]
        IN  /\ D >= 1
            /\ goal.status = "active"
            /\ Len(goal.milestones) = 3
            /\ [k \in 1..3 |-> goal.milestones[k].percent] = <<25, 50, 75>>
            /\ offsets = <<D \div 4, D \div 2, (3 * D) \div 4>>
            /\ \A k \in 1..3 : goal.milestones[k].date < goal.target_date
            /\ D = 90 => offsets = <<22, 45, 67>>

\* C16 witness: a goal 90 days out was stored with its three milestones
C16_Witness ==
    \E tid \in 1..Len(target_profile) :
        /\ target_profile[tid].target_date - target_profile[tid].created_at = 90
        /\ Len(target_profile[tid].milestones) = 3
        /\ target_profile[tid].milestones[3].date
              = target_profile[tid].created_at + 67

\* C18: every TargetVector initialize produces, for any baseline with values
\* in [0,1], any goal type and any custom_dimensions, has all its dimension
\* values within [0,1] and a final_scalar no greater than 0.98.
C18_TargetValuesInUnitRange ==
    \A tid \in 1..Len(target_profile) :
        /\ \A i \in 1..NDims : target_profile[tid].vector[i] \in 0..1000
        /\ target_profile[tid].vector[DimIdx("final_scalar")] <= 980

\* C19: for any lookback window and any non-negative raw metrics whose
\* training_days does not exceed the days of the window, each of the eight
\* normalized scalars and influence_scalar lies in [0,1].
C19_ScalarsInUnitRange ==
    (/\ last.op = "scalars"
     /\ last.ret[1].training_days <= last.ret[2])
        => \A i \in 1..9 : last.ret[3][i] \in 0..1000

\* C20: for every recommendation that generate_recommendations returns for a
\* user, create_goal_from_recommendation with that recommendation's id
\* creates an active goal of the user whose custom dimensions are the
\* recommendation's custom targets and whose target date is today plus
\* custom_duration if given, else today plus the recommended duration.
C20_GoalFromEveryRecommendation ==
    [][(/\ last'.op = "create_from_recommendation"
        /\ last'.count \in
              DOMAIN get_goal_recommendations(user_profile, last'.user, 10))
          => LET rec == get_goal_recommendations(user_profile, last'.user,
                                                 10)[last'.count].rec
                 goal == target_profile'[Len(target_profile')]
             IN  /\ last'.kind = "ok"
                 /\ Len(target_profile') = Len(target_profile) + 1
                 /\ goal.user_id = last'.user
                 /\ goal.status = "active"
                 /\ \A d \in DOMAIN rec.custom_targets :
                       goal.vector[DimIdx(d)] = rec.custom_targets[d]
                 /\ goal.target_date =
                       today + (IF last'.date # 0 THEN last'.date
                                ELSE rec.recommended_duration)]_vars

\* C21: POST /api/login issues an access token only when the email is
\* registered and the password matches; an unregistered email is answered
\* with status 404 and error 'User does not exist', a wrong password for a
\* registered email with status 401 and error 'Invalid credentials'.
C21_LoginAnswers ==
    last.op = "login" =>
        LET users == last.ret[1]
            email == last.ret[2]
            password == last.ret[3]
            response == last.ret[4]
            registered == users[email] # None
            matches == registered /\ check_password_hash(users[email], password)
        IN  /\ response.access_token => matches
            /\ ~registered =>
                  (response.status = 404
                   /\ response.error = "User does not exist")
            /\ (registered /\ ~matches) =>
                  (response.status = 401
                   /\ response.error = "Invalid credentials")

\* C22: build is idempotent when the raw metrics are unchanged: a second
\* build for the same user and profile stores and returns the same vector
\* and final_scalar as the first and leaves the persisted activity level
\* unchanged.
C22_BuildIdempotent ==
    (last.op = "build" /\ Len(last.ret) >= 2) =>
        /\ last.ret[2].vector = last.ret[1].vector
        /\ last.ret[2].level = last.ret[1].level

\* the position of an activity level on the scale
LevelRank(level) ==
    CASE level = "Sedentary" -> 1
      [] level = "Casual" -> 2
      [] level = "Moderate" -> 3
      [] level = "Active" -> 4
      [] level = "Intense" -> 5

\* C23: with raw metrics and weights held constant, repeated builds
\* converge: the persisted activity level moves in one direction only and
\* no longer changes after at most four builds.
C23_LevelConverges ==
    last.op = "build" =>
        LET n == Len(last.ret)
            rank(i) == IF i = 0 THEN LevelRank(last.ret[1].before)
                       ELSE LevelRank(last.ret[i].level)
        IN  /\ \/ \A i \in 0..(n - 1) : rank(i) <= rank(i + 1)
               \/ \A i \in 0..(n - 1) : rank(i) >= rank(i + 1)
            /\ \A i \in 4..n : rank(i) = rank(4)

\* C23 witness: a user whose level changed at each of the first three
\* builds and then stayed through the fourth and fifth
C23_Witness ==
    /\ last.op = "build" /\ Len(last.ret) >= 5
    /\ last.ret[1].before # last.ret[1].level
    /\ last.ret[1].level # last.ret[2].level
    /\ last.ret[2].level # last.ret[3].level
    /\ last.ret[3].level = last.ret[4].level
    /\ last.ret[4].level = last.ret[5].level

\* C24: when two updates of the same goal that override different
\* dimensions run concurrently, the stored target vector afterwards contains
\* both overrides: once no update is in flight, every override of a
\* completed update is in the stored vector.
C24_NoLostOverride ==
    (/\ last.op = "update"
     /\ \A t \in Threads : inflight[t].pc = "idle")
        => \A c \in RaceOverrides : \A d \in DOMAIN c :
              d \in last.dims =>
                  target_profile[last.target].vector[DimIdx(d)] = c[d]

\* C25: when two snapshot calls for the same (user, profile) run
\* concurrently on the same day, exactly one history row exists for that
\* day afterwards: once the call that began during the other one has
\* returned and no snapshot is in flight, the table holds one row of today.
C25_OneRowAfterConcurrentSnapshots ==
    (/\ last.op = "snapshot" /\ last.count = 2
     /\ \A t \in Threads : inflight[t].pc = "idle")
        => Cardinality(HistoryRows(user_vector_history, last.user,
                                   last.profile, last.date)) = 1

\* C26: after any sequence of initialize and update calls every stored goal
\* keeps exactly three milestones, at 25, 50 and 75 percent; an update never
\* leaves a goal with an empty or partial milestone list.
C26_ThreeMilestonesKept ==
    \A i \in 1..Len(target_profile) :
        /\ Len(target_profile[i].milestones) = 3
        /\ \A k \in 1..3 :
              target_profile[i].milestones[k].percent = 25 * k

\* C27: whenever calculate reports a next_milestone, it is the earliest-dated
\* milestone whose date is after today, no unreached milestone is skipped,
\* and days_until is positive; also after an update extended the target date.
C27_NextMilestoneIsEarliestUnreached ==
    (/\ last.op = "calculate" /\ last.kind = "report"
     /\ last.ret[1].next_milestone.kind # "None") =>
        LET next == last.ret[1].next_milestone
            stored == target_profile[last.target].milestones
        IN  /\ next.date > today
            /\ next.days_until > 0
            /\ \A k \in 1..Len(stored) :
                  stored[k].date > today =>
                      /\ stored[k].date >= next.date
                      /\ stored[k].percent >= next.percent

\* C28: a goal created under profile P is always evaluated against the
\* user's UserVector for profile P: a calculate by the owner of a stored
\* goal, who has a vector for the goal's profile, returns a report whose
\* current values are that vector.
C28_EvaluatedAgainstOwnProfile ==
    (/\ last.op = "calculate"
     /\ HasTarget(target_profile, last.target)
     /\ last.user = target_profile[last.target].user_id
     /\ HasUserVector(user_profile, last.user,
                      target_profile[last.target].profile_name)) =>
        /\ last.kind = "report"
        /\ \A i \in 1..NDims :
              last.ret[1].dimension_progress[i].current =
                  get_user_vector(user_profile, last.user,
                      target_profile[last.target].profile_name).vector[i]

\* C29: after initialize without custom_dimensions, each dimension boosted
\* by the goal type has a target that is at least its baseline (strictly
\* greater when the baseline is below 1) and at most 1.0, in the returned
\* vector and in the stored one, and every dimension that is neither
\* boosted nor final_scalar keeps its baseline value.
C29_BoostedAboveBaseline ==
    (last.op = "initialize" /\ last.kind = "ok") =>
        LET goal == target_profile[last.target]
            baseline == get_user_vector(user_profile, last.user,
                                        last.profile).vector
            returned == _apply_goal_adjustments(baseline, goal.goal_type,
                                                NoCustom)
        IN  \A i \in 1..NDims :
                IF DIMS[i] \in DOMAIN improvement_map(goal.goal_type)
                THEN /\ returned[i] >= baseline[i] * 1000
                     /\ baseline[i] < 1000 => returned[i] > baseline[i] * 1000
                     /\ returned[i] <= 1000000
                     /\ goal.vector[i] >= baseline[i]
                     /\ goal.vector[i] <= 1000
                ELSE DIMS[i] # "final_scalar" =>
                         goal.vector[i] = baseline[i]

\* C30: for any influence scalar and activity scalar in [0,1] and any
\* non-negative strength and activity weights, final_scalar is computed
\* without error and lies in [0,1].
C30_FinalScalarInUnitRange ==
    (/\ last.op = "fitness"
     /\ last.ret[1] \in 0..1000 /\ last.ret[2] \in 0..1000
     /\ last.ret[3] >= 0 /\ last.ret[4] >= 0)
        => /\ last.ret[5].ok
           /\ last.ret[5].val \in 0..1000

====
